---- MODULE Spec2Model ----
(***************************************************************************)
(* check_mssql: the check-execution engine of src/main.go.                 *)
(*                                                                         *)
(* main arms a deadline timer, spawns one worker goroutine that runs       *)
(* runQuery (open, ping, query, first row, columns, scan, format) and      *)
(* then selects on resultChan, errChan and timeoutChan.  Each branch of    *)
(* the select prints one line and calls os.Exit.                           *)
(*                                                                         *)
(* Texts are sequences of one-character strings; a printed line is a      *)
(* sequence of such tokens (a fixed format fragment is one token).         *)
(***************************************************************************)
EXTENDS Integers, Sequences, FiniteSets, TLC

(* ------------------------------ bounds -------------------------------- *)
MaxTimeout == 1
MaxPatLen == 1
MaxCols == 2
MaxFormatCols == 3
MaxFormatPatLen == 2

(* ------------------------- program constants -------------------------- *)
OK == 0
WARNING == 1
CRITICAL == 2
UNKNOWN == 3

(* ------------------------------ texts --------------------------------- *)
NoErr == <<>>

Digits == <<"0", "1", "2", "3", "4", "5", "6", "7", "8", "9">>

RECURSIVE ItoaNat(_)
ItoaNat(n) ==
    IF n < 10 THEN <<Digits[n + 1]>>
    ELSE ItoaNat(n \div 10) \o <<Digits[(n % 10) + 1]>>

\* fmt's %v / %d of an integer
Itoa(n) == IF n < 0 THEN <<"-">> \o ItoaNat(0 - n) ELSE ItoaNat(n)

RECURSIVE Join(_, _)
\* strings.Join(elems, sep)
Join(elems, sep) ==
    IF Len(elems) = 0 THEN <<>>
    ELSE IF Len(elems) = 1 THEN elems[1]
    ELSE elems[1] \o sep \o Join(Tail(elems), sep)

SeqsUpTo(S, n) == UNION {[1..k -> S] : k \in 0..n}

(* --------------------------- row values ------------------------------- *)
\* A scanned column value: nil, []byte, or another driver type (string, int64).
NullVal == [kind |-> "nil", text |-> <<>>, n |-> 0]
BytesVal(b) == [kind |-> "bytes", text |-> b, n |-> 0]
IntVal(i) == [kind |-> "int64", text |-> <<>>, n |-> i]
StringVal(s) == [kind |-> "string", text |-> s, n |-> 0]

ColumnValues == {NullVal, BytesVal(<<"a">>), IntVal(42)}

Rows == UNION {[1..k -> ColumnValues] : k \in 1..MaxCols}

\* The result sets the server may return: empty, one row, or several rows.
ResultSets ==
    {<<>>} \cup {<<r>> : r \in Rows} \cup {<<r, r>> : r \in {q \in Rows : Len(q) = 1}}

\* Mutant: the nil case is missing, so %v renders a NULL as "<nil>".
RenderNoNilCase(v) ==
    CASE v.kind = "nil" -> <<"<", "n", "i", "l", ">">>
      [] v.kind = "bytes" -> v.text
      [] OTHER -> IF v.kind = "int64" THEN Itoa(v.n) ELSE v.text

\* The type switch of the formatting loop.
Render(v) ==
    CASE v.kind = "nil" -> <<>>
      [] v.kind = "bytes" -> v.text
      [] OTHER -> IF v.kind = "int64" THEN Itoa(v.n) ELSE v.text

\* The formatting loop and the final strings.Join(result, ";").
FormatRow(vals) == Join([i \in 1..Len(vals) |-> Render(vals[i])], <<";">>)

(* ----------------------- regexp.MatchString --------------------------- *)
\* Patterns over literals, the wildcard "." and capture groups.
PatAlphabet == {"a", ".", "(", ")"}
Patterns == SeqsUpTo(PatAlphabet, MaxPatLen)

RECURSIVE ParseDepth(_, _, _)
\* Scan of the group structure: the depth after p[i..], or -1 at an unexpected ")".
ParseDepth(p, i, depth) ==
    IF i > Len(p) THEN depth
    ELSE IF p[i] = "(" THEN ParseDepth(p, i + 1, depth + 1)
    ELSE IF p[i] = ")" THEN
        IF depth = 0 THEN 0 - 1 ELSE ParseDepth(p, i + 1, depth - 1)
    ELSE ParseDepth(p, i + 1, depth)

\* regexp.Compile: the error (NoErr when well-formed).
CompileErr(p) ==
    LET d == ParseDepth(p, 1, 0) IN
    IF d < 0 THEN <<"error parsing regexp: unexpected ): ">> \o p
    ELSE IF d > 0 THEN <<"error parsing regexp: missing closing ): ">> \o p
    ELSE NoErr

\* The compiled program: groups do not change what is matched.
Atoms(p) == SelectSeq(p, LAMBDA c : c \notin {"(", ")"})

\* Unanchored match of the atoms somewhere in the text.
Matches(atoms, s) ==
    \E i \in 0..(Len(s) - Len(atoms)) :
        \A j \in 1..Len(atoms) : atoms[j] = "." \/ atoms[j] = s[i + j]

\* regexp.MatchString(pattern, s): (matched, err)
MatchString(pattern, s) ==
    IF CompileErr(pattern) # NoErr
    THEN [matched |-> FALSE, err |-> CompileErr(pattern)]
    ELSE [matched |-> Matches(Atoms(pattern), s), err |-> NoErr]

(* ------------------------------ state --------------------------------- *)
VARIABLES
    config,      \* config.AppConfig: Server, Timeout, Query, Regex
    dbMode,      \* the database collaborator: "answers" or "hung"
    now,         \* wall clock, in seconds since the timer was armed
    timeoutChan, \* channel of time.After
    errChan,     \* chan error, capacity 1
    resultChan,  \* chan string, capacity 1
    wpc,         \* position of the worker goroutine
    conn,        \* db: "none", "open", "closed"
    ctx,         \* the context of WithTimeout: state and deadline
    cursor,      \* rows: "none", "open", "closed"
    rows,        \* rows not yet fetched from the cursor
    current,     \* the row the cursor is on
    values,      \* the scanned values
    defers,      \* runQuery's stack of deferred calls
    ret,         \* runQuery's return values (result, err)
    stdout,      \* lines printed
    exitCodes,   \* <<>> while the process runs, <<code>> once os.Exit was called
    trace,       \* history: the operations the worker and the supervisor invoked
    timerFirst   \* history: the timer had fired when the worker sent its signal

vars == <<config, dbMode, now, timeoutChan, errChan, resultChan, wpc, conn, ctx,
          cursor, rows, current, values, defers, ret, stdout, exitCodes, trace,
          timerFirst>>

workerVars == <<wpc, conn, ctx, cursor, rows, current, values, defers, ret>>
mainVars == <<stdout, exitCodes>>
chanVars == <<timeoutChan, errChan, resultChan>>

Hosts == {"db1"}
Queries == {"SELECT 1"}
Causes == {"driver error"}

Running == exitCodes = <<>>
Exited == exitCodes # <<>>
ExitCode == exitCodes[1]

\* Lines 98-125: settings stored, timer armed, channels made, worker spawned.
Init ==
    /\ config \in [Server : Hosts, Timeout : 0..MaxTimeout,
                   Query : Queries, Regex : Patterns]
    /\ dbMode \in {"answers", "hung"}
    /\ now = 0
    /\ timeoutChan = <<>>
    /\ errChan = <<>>
    /\ resultChan = <<>>
    /\ wpc = "open"
    /\ conn = "none"
    /\ ctx = [state |-> "none", deadline |-> 0]
    /\ cursor = "none"
    /\ rows = <<>>
    /\ current = <<>>
    /\ values = <<>>
    /\ defers = <<>>
    /\ ret = [result |-> <<>>, err |-> NoErr]
    /\ stdout = <<>>
    /\ exitCodes = <<>>
    /\ trace = <<>>
    /\ timerFirst = FALSE


(* --------------------------- the worker ------------------------------- *)
CtxExpired == ctx.state = "cancelled" \/ (ctx.state = "active" /\ now >= ctx.deadline)
DeadlineExceeded == "context deadline exceeded"

\* return "", fmt.Errorf(format, cause)
ReturnErr(prefix, cause) ==
    /\ ret' = [result |-> <<>>, err |-> <<prefix, cause>>]
    /\ wpc' = "return"

\* Mutant: the close of db is not deferred.
OpenNoDefer ==
    /\ Running /\ wpc = "open"
    /\ trace' = Append(trace, "open")
    /\ \/ /\ \E cause \in Causes : ReturnErr("can't connect to server: ", cause)
          /\ UNCHANGED conn
       \/ /\ conn' = "open"
          /\ wpc' = "ctx"
          /\ UNCHANGED ret
    /\ UNCHANGED <<config, dbMode, now, chanVars, ctx, cursor, rows, current, values,
                   defers, mainVars, timerFirst>>

\* Lines 165-172: sql.Open; on success the close of db is deferred.
Open ==
    /\ Running /\ wpc = "open"
    /\ trace' = Append(trace, "open")
    /\ \/ /\ \E cause \in Causes : ReturnErr("can't connect to server: ", cause)
          /\ UNCHANGED <<conn, defers>>
       \/ /\ conn' = "open"
          /\ defers' = Append(defers, "db.Close")
          /\ wpc' = "ctx"
          /\ UNCHANGED ret
    /\ UNCHANGED <<config, dbMode, now, chanVars, ctx, cursor, rows, current, values,
                   mainVars, timerFirst>>

\* Mutant: the calls get a context without a deadline.
WithTimeoutBackground ==
    /\ Running /\ wpc = "ctx"
    /\ ctx' = [state |-> "background", deadline |-> 0]
    /\ defers' = Append(defers, "cancel")
    /\ wpc' = "ping"
    /\ trace' = Append(trace, "ctx")
    /\ UNCHANGED <<config, dbMode, now, chanVars, conn, cursor, rows, current, values,
                   ret, mainVars, timerFirst>>

\* Lines 175-176: context.WithTimeout(Background, Timeout seconds); defer cancel().
WithTimeout ==
    /\ Running /\ wpc = "ctx"
    /\ ctx' = [state |-> "active", deadline |-> now + config.Timeout]
    /\ defers' = Append(defers, "cancel")
    /\ wpc' = "ping"
    /\ trace' = Append(trace, "ctx")
    /\ UNCHANGED <<config, dbMode, now, chanVars, conn, cursor, rows, current, values,
                   ret, mainVars, timerFirst>>

\* The causes with which a call bounded by ctx may fail now: the context's
\* own error once it has expired, a driver error while the server answers.
CallFailures ==
    IF CtxExpired THEN {DeadlineExceeded}
    ELSE IF dbMode = "answers" THEN Causes ELSE {}

\* Whether a call bounded by ctx may succeed now.
CallMaySucceed == ~CtxExpired /\ dbMode = "answers"

\* Mutant: the ping's error is recorded but runQuery does not return on it.
PingNoReturn ==
    /\ Running /\ wpc = "ping"
    /\ trace' = Append(trace, "ping")
    /\ \/ /\ \E cause \in CallFailures :
                ret' = [result |-> <<>>, err |-> <<"can't ping server: ", cause>>]
          /\ wpc' = "query"
       \/ /\ CallMaySucceed
          /\ wpc' = "query"
          /\ UNCHANGED ret
    /\ UNCHANGED <<config, dbMode, now, chanVars, conn, ctx, cursor, rows, current,
                   values, defers, mainVars, timerFirst>>

\* Lines 179-184: db.PingContext(ctx).
Ping ==
    /\ Running /\ wpc = "ping"
    /\ trace' = Append(trace, "ping")
    /\ \/ \E cause \in CallFailures : ReturnErr("can't ping server: ", cause)
       \/ /\ CallMaySucceed
          /\ wpc' = "query"
          /\ UNCHANGED ret
    /\ UNCHANGED <<config, dbMode, now, chanVars, conn, ctx, cursor, rows, current,
                   values, defers, mainVars, timerFirst>>

\* Lines 187-194: db.QueryContext(ctx, Query); on success the close of rows is deferred.
Query ==
    /\ Running /\ wpc = "query"
    /\ trace' = Append(trace, "query")
    /\ \/ /\ \E cause \in CallFailures : ReturnErr("query error: ", cause)
          /\ UNCHANGED <<cursor, rows, defers>>
       \/ /\ CallMaySucceed
          /\ \E rs \in ResultSets : rows' = rs
          /\ cursor' = "open"
          /\ defers' = Append(defers, "rows.Close")
          /\ wpc' = "next"
          /\ UNCHANGED ret
    /\ UNCHANGED <<config, dbMode, now, chanVars, conn, ctx, current, values, mainVars, timerFirst>>

\* Mutant: the outcome of rows.Next() is ignored.
RowsNextUnchecked ==
    /\ Running /\ wpc = "next"
    /\ trace' = Append(trace, "next")
    /\ current' = IF rows # <<>> THEN Head(rows) ELSE <<>>
    /\ rows' = IF rows # <<>> THEN Tail(rows) ELSE <<>>
    /\ wpc' = "columns"
    /\ UNCHANGED <<config, dbMode, now, chanVars, conn, ctx, cursor, values, defers,
                   ret, mainVars, timerFirst>>

\* Mutant: the cursor is advanced in a loop until no row is left.
RowsNextAll ==
    /\ Running /\ wpc = "next"
    /\ trace' = Append(trace, "next")
    /\ \/ /\ (rows = <<>> /\ current = <<>>) \/ CtxExpired
          /\ ret' = [result |-> <<>>, err |-> <<"query returned no rows">>]
          /\ wpc' = "return"
          /\ UNCHANGED <<rows, current>>
       \/ /\ rows # <<>>
          /\ current' = Head(rows)
          /\ rows' = Tail(rows)
          /\ wpc' = IF Tail(rows) = <<>> THEN "columns" ELSE "next"
          /\ UNCHANGED ret
    /\ UNCHANGED <<config, dbMode, now, chanVars, conn, ctx, cursor, values, defers,
                   mainVars, timerFirst>>

\* Lines 197-202: rows.Next(); false when there is no row (or the context
\* expired and closed the cursor).
RowsNext ==
    /\ Running /\ wpc = "next"
    /\ trace' = Append(trace, "next")
    /\ \/ /\ rows = <<>> \/ CtxExpired
          /\ ret' = [result |-> <<>>, err |-> <<"query returned no rows">>]
          /\ wpc' = "return"
          /\ UNCHANGED <<rows, current>>
       \/ /\ rows # <<>>
          /\ current' = Head(rows)
          /\ rows' = Tail(rows)
          /\ wpc' = "columns"
          /\ UNCHANGED ret
    /\ UNCHANGED <<config, dbMode, now, chanVars, conn, ctx, cursor, values, defers,
                   mainVars, timerFirst>>

\* Lines 205-208: rows.Columns().
Columns ==
    /\ Running /\ wpc = "columns"
    /\ trace' = Append(trace, "columns")
    /\ \/ \E cause \in Causes : ReturnErr("error getting columns: ", cause)
       \/ /\ wpc' = "scan"
          /\ UNCHANGED ret
    /\ UNCHANGED <<config, dbMode, now, chanVars, conn, ctx, cursor, rows, current,
                   values, defers, mainVars, timerFirst>>

\* Lines 211-218: rows.Scan into len(cols) values.
Scan ==
    /\ Running /\ wpc = "scan"
    /\ trace' = Append(trace, "scan")
    /\ \/ /\ \E cause \in Causes : ReturnErr("error scanning row: ", cause)
          /\ UNCHANGED values
       \/ /\ values' = current
          /\ wpc' = "format"
          /\ UNCHANGED ret
    /\ UNCHANGED <<config, dbMode, now, chanVars, conn, ctx, cursor, rows, current,
                   defers, mainVars, timerFirst>>

\* Lines 221-232: render each value, join with ";", return (result, nil).
Format ==
    /\ Running /\ wpc = "format"
    /\ trace' = Append(trace, "format")
    /\ ret' = [result |-> FormatRow(values), err |-> NoErr]
    /\ wpc' = "return"
    /\ UNCHANGED <<config, dbMode, now, chanVars, conn, ctx, cursor, rows, current,
                   values, defers, mainVars, timerFirst>>

\* Mutant: the deferred calls run in the order they were deferred.
RunDeferredFifo ==
    /\ Running /\ wpc = "return" /\ defers # <<>>
    /\ LET d == defers[1] IN
        /\ trace' = Append(trace, d)
        /\ cursor' = IF d = "rows.Close" THEN "closed" ELSE cursor
        /\ ctx' = IF d = "cancel" THEN [ctx EXCEPT !.state = "cancelled"] ELSE ctx
        /\ conn' = IF d = "db.Close" THEN "closed" ELSE conn
    /\ defers' = Tail(defers)
    /\ UNCHANGED <<config, dbMode, now, chanVars, wpc, rows, current, values, ret,
                   mainVars, timerFirst>>

\* A return of runQuery runs the deferred calls, last deferred first
\* (lines 172, 176, 194).
RunDeferred ==
    /\ Running /\ wpc = "return" /\ defers # <<>>
    /\ LET d == defers[Len(defers)] IN
        /\ trace' = Append(trace, d)
        /\ cursor' = IF d = "rows.Close" THEN "closed" ELSE cursor
        /\ ctx' = IF d = "cancel" THEN [ctx EXCEPT !.state = "cancelled"] ELSE ctx
        /\ conn' = IF d = "db.Close" THEN "closed" ELSE conn
    /\ defers' = SubSeq(defers, 1, Len(defers) - 1)
    /\ UNCHANGED <<config, dbMode, now, chanVars, wpc, rows, current, values, ret,
                   mainVars, timerFirst>>

\* Mutant: the err check is dropped and the result is sent whatever runQuery returned.
SendResultAlways ==
    /\ Running /\ wpc = "return" /\ defers = <<>>
    /\ Len(resultChan) < 1
    /\ resultChan' = Append(resultChan, ret.result)
    /\ trace' = Append(trace, "send.result")
    /\ timerFirst' = (timeoutChan # <<>>)
    /\ wpc' = "done"
    /\ UNCHANGED <<config, dbMode, now, timeoutChan, errChan, conn, ctx, cursor, rows,
                   current, values, defers, ret, mainVars>>

\* Mutant: the return after the send on errChan is missing, so a failure is
\* followed by a send of the (empty) result.
SendBoth ==
    /\ Running /\ wpc = "return" /\ defers = <<>>
    /\ Len(resultChan) < 1
    /\ IF ret.err # NoErr
       THEN /\ Len(errChan) < 1
            /\ errChan' = Append(errChan, ret.err)
            /\ trace' = trace \o <<"send.err", "send.result">>
       ELSE /\ trace' = Append(trace, "send.result")
            /\ UNCHANGED errChan
    /\ resultChan' = Append(resultChan, ret.result)
    /\ timerFirst' = (timeoutChan # <<>>)
    /\ wpc' = "done"
    /\ UNCHANGED <<config, dbMode, now, timeoutChan, conn, ctx, cursor, rows, current,
                   values, defers, ret, mainVars>>

\* Lines 118-125: after runQuery returned, send err on errChan or result on resultChan.
Send ==
    /\ Running /\ wpc = "return" /\ defers = <<>>
    /\ IF ret.err # NoErr
       THEN /\ Len(errChan) < 1
            /\ errChan' = Append(errChan, ret.err)
            /\ trace' = Append(trace, "send.err")
            /\ UNCHANGED resultChan
       ELSE /\ Len(resultChan) < 1
            /\ resultChan' = Append(resultChan, ret.result)
            /\ trace' = Append(trace, "send.result")
            /\ UNCHANGED errChan
    /\ timerFirst' = (timeoutChan # <<>>)
    /\ wpc' = "done"
    /\ UNCHANGED <<config, dbMode, now, timeoutChan, conn, ctx, cursor, rows, current,
                   values, defers, ret, mainVars>>

(* ------------------------- time and the timer ------------------------- *)
\* Line 113: time.After(Timeout seconds), armed at time 0.
TimerDeadline == config.Timeout

\* Time passes; the clock is followed only while a deadline is still ahead.
Tick ==
    /\ Running
    /\ now < TimerDeadline \/ (ctx.state = "active" /\ now < ctx.deadline)
    /\ now' = now + 1
    /\ UNCHANGED <<config, dbMode, chanVars, workerVars, mainVars, trace, timerFirst>>

\* Mutant: the timer's channel never delivers (a nil timeoutChan).
TimerNeverFires == Running /\ FALSE /\ UNCHANGED vars

\* The runtime delivers the timer's value on its channel once the deadline passed.
TimerFire ==
    /\ Running
    /\ now >= TimerDeadline
    /\ timeoutChan = <<>>
    /\ timeoutChan' = <<"fired">>
    /\ UNCHANGED <<config, dbMode, now, errChan, resultChan, workerVars, mainVars, trace,
                   timerFirst>>

(* ---------------------- the supervisor's select ----------------------- *)
\* Mutant: the performance-data field is left out.
OkLineNoPerfdata(result) == <<"SQL OK: ">> \o result

OkLine(result) == <<"SQL OK: ">> \o result \o <<"|">> \o result
\* Mutant: a match is reported like a result that does not match.
MatchedLineAsOk(result) == <<"SQL OK: ">> \o result \o <<"|">> \o result

MatchedLine(result) == <<"SQL CRITICAL: ">> \o result \o <<"|">> \o result
InvalidRegexLine(err) == <<"SQL CRITICAL: ", "Invalid regex: ">> \o err
\* Mutant: the failure is printed with a performance-data field, like a result.
ErrLineWithPerfdata(err) == <<"SQL CRITICAL: ">> \o err \o <<"|">> \o err

ErrLine(err) == <<"SQL CRITICAL: ">> \o err
\* Mutant: the line names the query instead of the host.
TimeoutLineNoHost ==
    <<"SQL UNKNOWN: ERROR connection ", config.Query, " (timeout after ">>
        \o Itoa(config.Timeout) \o <<")">>

TimeoutLine ==
    <<"SQL UNKNOWN: ERROR connection ", config.Server, " (timeout after ">>
        \o Itoa(config.Timeout) \o <<")">>

\* fmt.Printf(line); os.Exit(code)
PrintAndExit(line, code) ==
    /\ stdout' = Append(stdout, line)
    /\ exitCodes' = <<code>>

\* Mutant: a matching pattern is a WARNING and a malformed one is UNKNOWN.
ClassifySoft(result) ==
    IF config.Query # "" /\ config.Regex # <<>>
    THEN LET m == MatchString(config.Regex, result) IN
         IF m.err # NoErr
         THEN [line |-> <<"SQL UNKNOWN: ", "Invalid regex: ">> \o m.err, code |-> UNKNOWN]
         ELSE IF m.matched
         THEN [line |-> <<"SQL WARNING: ">> \o result \o <<"|">> \o result,
               code |-> WARNING]
         ELSE [line |-> OkLine(result), code |-> OK]
    ELSE [line |-> OkLine(result), code |-> OK]

\* Mutant: a pattern that does not compile is treated as a pattern that does
\* not match.
ClassifyInvalidAsNoMatch(result) ==
    IF config.Query # "" /\ config.Regex # <<>>
    THEN LET m == MatchString(config.Regex, result) IN
         IF m.err = NoErr /\ m.matched
         THEN [line |-> MatchedLine(result), code |-> CRITICAL]
         ELSE [line |-> OkLine(result), code |-> OK]
    ELSE [line |-> OkLine(result), code |-> OK]

RECURSIVE SplitColumns(_)
\* The pieces of s between its ";" separators.
SplitColumns(s) ==
    IF \A i \in 1..Len(s) : s[i] # ";" THEN <<s>>
    ELSE LET k == CHOOSE i \in 1..Len(s) :
                      s[i] = ";" /\ \A j \in 1..(i - 1) : s[j] # ";"
         IN <<SubSeq(s, 1, k - 1)>> \o SplitColumns(SubSeq(s, k + 1, Len(s)))

\* Mutant: the pattern is evaluated on each column instead of the joined text.
ClassifyPerColumn(result) ==
    IF config.Query # "" /\ config.Regex # <<>>
    THEN LET cols == SplitColumns(result)
             m == [i \in 1..Len(cols) |-> MatchString(config.Regex, cols[i])]
         IN
         IF m[1].err # NoErr THEN [line |-> InvalidRegexLine(m[1].err), code |-> CRITICAL]
         ELSE IF \E i \in 1..Len(cols) : m[i].matched
         THEN [line |-> MatchedLine(result), code |-> CRITICAL]
         ELSE [line |-> OkLine(result), code |-> OK]
    ELSE [line |-> OkLine(result), code |-> OK]

\* Lines 129-143: the verdict for a received result.
Classify(result) ==
    IF config.Query # "" /\ config.Regex # <<>>
    THEN LET m == MatchString(config.Regex, result) IN
         IF m.err # NoErr THEN [line |-> InvalidRegexLine(m.err), code |-> CRITICAL]
         ELSE IF m.matched THEN [line |-> MatchedLine(result), code |-> CRITICAL]
         ELSE [line |-> OkLine(result), code |-> OK]
    ELSE [line |-> OkLine(result), code |-> OK]

\* Line 129: case result := <-resultChan
RecvResult ==
    /\ Running
    /\ resultChan # <<>>
    /\ LET v == Classify(Head(resultChan)) IN PrintAndExit(v.line, v.code)
    /\ resultChan' = Tail(resultChan)
    /\ trace' = Append(trace, "recv.result")
    /\ UNCHANGED <<config, dbMode, now, timeoutChan, errChan, workerVars, timerFirst>>

\* Line 144: case err := <-errChan
RecvErr ==
    /\ Running
    /\ errChan # <<>>
    /\ PrintAndExit(ErrLine(Head(errChan)), CRITICAL)
    /\ errChan' = Tail(errChan)
    /\ trace' = Append(trace, "recv.err")
    /\ UNCHANGED <<config, dbMode, now, timeoutChan, resultChan, workerVars, timerFirst>>

\* Line 147: case <-timeoutChan
RecvTimeout ==
    /\ Running
    /\ timeoutChan # <<>>
    /\ PrintAndExit(TimeoutLine, UNKNOWN)
    /\ timeoutChan' = Tail(timeoutChan)
    /\ trace' = Append(trace, "recv.timeout")
    /\ UNCHANGED <<config, dbMode, now, errChan, resultChan, workerVars, timerFirst>>

\* Lines 128-150: the select takes any one of the communications that can proceed.
\* The main goroutine reaches the select at an unspecified moment after the
\* worker was spawned; a step of Select is the moment the select is decided.
Select == RecvResult \/ RecvErr \/ RecvTimeout

Worker ==
    \/ Open \/ WithTimeout \/ Ping \/ Query \/ RowsNext \/ Columns \/ Scan \/ Format
    \/ RunDeferred \/ Send

Next == Worker \/ Tick \/ TimerFire \/ Select

Spec == Init /\ [][Next]_vars

\* The runtime keeps time, runs expired timers and schedules the main goroutine;
\* nothing is assumed of the worker, which waits on the database.
FairSpec == Spec /\ WF_vars(Tick) /\ WF_vars(TimerFire) /\ WF_vars(Select)

\* Time passes and the worker goroutine is scheduled: a call of the worker that
\* can return does return.  Nothing is assumed of the timer or the supervisor.
WorkerFairSpec == Spec /\ WF_vars(Tick) /\ WF_vars(Worker)

(* ------------- formatting and classification on wider inputs ---------- *)
\* The engine from the point where a row has been scanned, over rows with
\* textual values, values containing the separator, and longer patterns.
DateText == <<"2", "0", "2", "4", "-", "0", "1", "-", "0", "1">>

FormatValues ==
    {NullVal, BytesVal(<<"a">>), BytesVal(<<";">>), StringVal(DateText), IntVal(42)}

FormatRows == UNION {[1..k -> FormatValues] : k \in 1..MaxFormatCols}

FormatPatterns == SeqsUpTo({"a", ";", "."}, MaxFormatPatLen)

\* Line 218 passed: open, ping, query, the advance, columns and scan succeeded
\* within the budget; runQuery is about to format the scanned values.
FormatInit ==
    /\ config \in [Server : Hosts, Timeout : 1..MaxTimeout,
                   Query : Queries, Regex : FormatPatterns]
    /\ dbMode = "answers"
    /\ now = 0
    /\ timeoutChan = <<>>
    /\ errChan = <<>>
    /\ resultChan = <<>>
    /\ wpc = "format"
    /\ conn = "open"
    /\ ctx = [state |-> "active", deadline |-> config.Timeout]
    /\ cursor = "open"
    /\ rows = <<>>
    /\ current \in FormatRows
    /\ values = current
    /\ defers = <<"db.Close", "cancel", "rows.Close">>
    /\ ret = [result |-> <<>>, err |-> NoErr]
    /\ stdout = <<>>
    /\ exitCodes = <<>>
    /\ trace = <<"open", "ctx", "ping", "query", "next", "columns", "scan">>
    /\ timerFirst = FALSE

FormatNext ==
    Format \/ RunDeferred \/ Send \/ Tick \/ TimerFire \/ RecvResult \/ RecvTimeout

FormatSpec == FormatInit /\ [][FormatNext]_vars

(* ============================= claims ================================= *)
\* The branch of the select the supervisor took ("" while it waits).
Took == IF Exited THEN trace[Len(trace)] ELSE ""
Line == stdout[1]
Invoked(op) == \E i \in 1..Len(trace) : trace[i] = op
Before(a, b) == \E i, j \in 1..Len(trace) : i < j /\ trace[i] = a /\ trace[j] = b

\* C1: once the engine has started, every execution eventually prints one
\* verdict line and exits, whatever the database does (checked under FairSpec:
\* time passes, expired timers run, the main goroutine is scheduled; nothing
\* is assumed of the worker).
C1_Terminates == <>(Exited /\ Len(stdout) = 1)

\* The process exited although the server never answered the ping.
C1_Witness == Exited /\ dbMode = "hung" /\ wpc = "ping"

\* C2 (as claimed): the first signal that occurs decides: UNKNOWN whenever the
\* timer fired before the worker delivered, the worker's outcome whenever the
\* worker delivered before the timer fired.
C2_FirstSignalDecides ==
    Exited =>
        IF wpc = "done" /\ ~timerFirst
        THEN Took \in {"recv.result", "recv.err"}
        ELSE ExitCode = UNKNOWN

\* C2 (amended): the select takes one of the signals pending when it runs.
\* Taking the timer gives UNKNOWN with the line naming host and budget; taking
\* the worker's signal gives the verdict of the worker's outcome; while the
\* worker has not delivered only the timer can be taken.
C2_PendingSignalDecides ==
    Exited =>
        /\ Took \in {"recv.result", "recv.err", "recv.timeout"}
        /\ wpc # "done" => Took = "recv.timeout"
        /\ Took = "recv.timeout" =>
              /\ ExitCode = UNKNOWN
              /\ Line = <<"SQL UNKNOWN: ERROR connection ", config.Server,
                          " (timeout after ">> \o Itoa(config.Timeout) \o <<")">>
        /\ Took = "recv.err" =>
              /\ wpc = "done" /\ ret.err # NoErr
              /\ ExitCode = CRITICAL
              /\ Line = <<"SQL CRITICAL: ">> \o ret.err
        /\ Took = "recv.result" =>
              /\ wpc = "done" /\ ret.err = NoErr
              /\ ExitCode \in {OK, CRITICAL}
              /\ Line[1] \in {"SQL OK: ", "SQL CRITICAL: "}
              /\ ExitCode = OK =>
                    Line = <<"SQL OK: ">> \o ret.result \o <<"|">> \o ret.result

\* The timer had fired before the worker delivered, and the worker's failure
\* was taken all the same.
C2_Witness == Exited /\ timerFirst /\ Took = "recv.err"

\* C3: the verdict is OK, CRITICAL or UNKNOWN, never WARNING, and the printed
\* prefix agrees with the exit code.
C3_VerdictScale ==
    Exited =>
        /\ ExitCode \in {OK, CRITICAL, UNKNOWN}
        /\ ExitCode # WARNING
        /\ Len(stdout) = 1
        /\ ExitCode = OK <=> Line[1] = "SQL OK: "
        /\ ExitCode = CRITICAL <=> Line[1] = "SQL CRITICAL: "
        /\ ExitCode = UNKNOWN <=> Line[1] = "SQL UNKNOWN: ERROR connection "

\* A result matched the pattern: the verdict where a WARNING would be natural.
C3_Witness ==
    /\ Exited /\ Took = "recv.result"
    /\ config.Regex = <<"a">> /\ ret.result = <<"a">>
    /\ ExitCode = CRITICAL

\* Patterns that regexp.Compile rejects: a ")" with no group open, a group left open.
Count(p, k, c) == Cardinality({i \in 1..k : p[i] = c})
Malformed(p) ==
    \/ \E k \in 1..Len(p) : Count(p, k, ")") > Count(p, k, "(")
    \/ Count(p, Len(p), "(") # Count(p, Len(p), ")")

\* C4 (as claimed): with a malformed pattern configured the exit code is 2,
\* the message is "Invalid regex: <cause>", and the exit code is never 3.
C4_MalformedAlwaysCritical ==
    (Exited /\ Malformed(config.Regex)) =>
        /\ ExitCode = CRITICAL
        /\ ExitCode # UNKNOWN
        /\ SubSeq(Line, 1, 2) = <<"SQL CRITICAL: ", "Invalid regex: ">>

\* C4 (amended): when the supervisor receives the worker's result and the
\* pattern is malformed, the exit code is 2 and the message is
\* "Invalid regex: <cause>"; the pattern is compiled on that branch only.
C4_MalformedOnResult ==
    (Exited /\ Malformed(config.Regex) /\ Took = "recv.result") =>
        /\ ExitCode = CRITICAL
        /\ SubSeq(Line, 1, 2) = <<"SQL CRITICAL: ", "Invalid regex: ">>
        /\ Len(Line) > 2
        /\ Line[3] \in {"error parsing regexp: unexpected ): ",
                        "error parsing regexp: missing closing ): "}

C4_Witness == Exited /\ config.Regex = <<"(">> /\ Took = "recv.result"

\* C5: once the connection was opened, db.Close has run before the worker
\* delivers its result or failure, so no verdict derived from the worker's
\* outcome is emitted while the connection is open.
C5_ClosedBeforeDelivery ==
    /\ (wpc = "done" \/ errChan # <<>> \/ resultChan # <<>>) =>
          /\ conn # "open"
          /\ Invoked("ctx") =>
                /\ conn = "closed"
                /\ Before("db.Close", "send.err") \/ Before("db.Close", "send.result")
    /\ Took \in {"recv.result", "recv.err"} => conn # "open"

\* A verdict derived from a failure after the connection was opened.
C5_Witness == Exited /\ Took = "recv.err" /\ Invoked("ping") /\ conn = "closed"


\* C6 (as claimed): the worker's connection and cursor are closed also when
\* the deadline won: the process never exits UNKNOWN with either still open.
C6_ReleasedOnAbandonment ==
    (Exited /\ ExitCode = UNKNOWN) => (conn # "open" /\ cursor # "open")

\* C7: when a query succeeded and its result reached the supervisor with no
\* pattern configured, the output is exactly "SQL OK: <r>|<r>", r the joined
\* first row, and the exit code is 0.
C7_NoPatternOk ==
    (Exited /\ Took = "recv.result" /\ config.Regex = <<>>) =>
        /\ ExitCode = OK
        /\ stdout = << <<"SQL OK: ">> \o FormatRow(current) \o <<"|">>
                          \o FormatRow(current) >>

\* A single-row query of two columns whose result was reported.
C7_Witness ==
    /\ Exited /\ Took = "recv.result" /\ config.Regex = <<>>
    /\ rows = <<>> /\ Len(current) = 2

\* C8: when the configured pattern matches the joined text r of the first row
\* the supervisor received, the exit code is 2 and the output is
\* "SQL CRITICAL: <r>|<r>".
C8_MatchCritical ==
    (/\ Exited /\ Took = "recv.result"
     /\ config.Regex # <<>> /\ ~Malformed(config.Regex)
     /\ Matches(Atoms(config.Regex), FormatRow(current))) =>
        /\ ExitCode = CRITICAL
        /\ stdout = << <<"SQL CRITICAL: ">> \o FormatRow(current) \o <<"|">>
                          \o FormatRow(current) >>

\* The pattern "." matched the separator of a row of two NULL columns.
C8_Witness ==
    /\ Exited /\ Took = "recv.result"
    /\ config.Regex = <<".">> /\ current = <<NullVal, NullVal>>

\* The query succeeded and its result set held no row.
EmptyResult == cursor # "none" /\ rows = <<>> /\ current = <<>>

\* C9: a query returning zero rows makes runQuery fail with "query returned no
\* rows"; the supervisor reports it with exit code 2, and an empty result set
\* never yields OK.
C9_EmptyResultCritical ==
    /\ (EmptyResult /\ wpc \in {"return", "done"}) =>
          ret = [result |-> <<>>, err |-> <<"query returned no rows">>]
    /\ (EmptyResult /\ Took = "recv.err") =>
          /\ ExitCode = CRITICAL
          /\ stdout = << <<"SQL CRITICAL: ", "query returned no rows">> >>
    /\ (EmptyResult /\ Exited) => ExitCode # OK /\ Took # "recv.result"

C9_Witness == EmptyResult /\ Took = "recv.err" /\ Invoked("next")

\* The host never answers and the connection handle was opened: the pipeline
\* cannot complete within the budget.
BudgetTooSmall == dbMode = "hung" /\ conn # "none"

\* C10 (as claimed): against a host too slow for the budget the exit code is 3
\* and the message names the host and the budget.
C10_SlowHostUnknown ==
    (Exited /\ BudgetTooSmall) =>
        /\ ExitCode = UNKNOWN
        /\ Line = <<"SQL UNKNOWN: ERROR connection ", config.Server,
                    " (timeout after ">> \o Itoa(config.Timeout) \o <<")">>

\* C10 (amended): against such a host the exit code is 3 with the message
\* naming host and budget when the select takes the deadline; the ping's own
\* context deadline, sized to the same budget, makes the worker fail once the
\* budget has elapsed, and when the select takes that failure the exit code is
\* 2 with "can't ping server: context deadline exceeded".  Never OK.
C10_SlowHostUnknownOrPingDeadline ==
    (Exited /\ BudgetTooSmall) =>
        \/ /\ Took = "recv.timeout"
           /\ ExitCode = UNKNOWN
           /\ Line = <<"SQL UNKNOWN: ERROR connection ", config.Server,
                       " (timeout after ">> \o Itoa(config.Timeout) \o <<")">>
        \/ /\ Took = "recv.err"
           /\ ExitCode = CRITICAL
           /\ now >= config.Timeout
           /\ Line = <<"SQL CRITICAL: ", "can't ping server: ",
                       "context deadline exceeded">>

\* The deadline was taken while the worker waited for the ping.
C10_Witness == Exited /\ BudgetTooSmall /\ Took = "recv.timeout" /\ wpc = "ping"

\* The failures runQuery returns, by the stage that failed.
FailureKinds ==
    {"can't connect to server: ", "can't ping server: ", "query error: ",
     "query returned no rows", "error getting columns: ", "error scanning row: "}

\* C11: every failure of the worker (open, ping, query, empty result, columns,
\* scan) is delivered on errChan and never as a result; when the supervisor
\* receives it the output is "SQL CRITICAL: <cause>" with no performance-data
\* field, the exit code is 2, and the pattern is not evaluated.
C11_FailureCritical ==
    /\ (wpc \in {"return", "done"} /\ ~Invoked("format")) =>
          /\ ret.err # NoErr /\ ret.result = <<>>
          /\ ret.err[1] \in FailureKinds
    /\ (wpc = "done" /\ ret.err # NoErr) =>
          /\ Invoked("send.err") /\ ~Invoked("send.result")
          /\ resultChan = <<>>
          /\ errChan = <<ret.err>> \/ Took = "recv.err"
    /\ Took = "recv.err" =>
          /\ ExitCode = CRITICAL
          /\ stdout = << <<"SQL CRITICAL: ">> \o ret.err >>
          /\ \A i \in 1..Len(Line) : Line[i] \notin {"|", "Invalid regex: "}

\* A scan failure reported although the configured pattern is malformed.
C11_Witness ==
    /\ Took = "recv.err" /\ config.Regex = <<")">>
    /\ ret.err[1] = "error scanning row: "

\* The text of a value, as the claim gives it.
Text13(v) ==
    CASE v = NullVal -> <<>>
      [] v.kind = "bytes" -> v.text
      [] v = IntVal(42) -> <<"4", "2">>
      [] v = StringVal(DateText) -> DateText

\* The texts of vals[1..k] in column order, a ";" between neighbours.
Joined13(vals) ==
    LET J[k \in 1..Len(vals)] ==
            IF k = 1 THEN Text13(vals[1]) ELSE J[k - 1] \o <<";">> \o Text13(vals[k])
    IN J[Len(vals)]

\* C13: the result of formatting a row of n values is their renderings in
\* column order joined with ";" (NULL as empty text, bytes as text, others by
\* their default text); (NULL, "2024-01-01", 42) gives ";2024-01-01;42"; and
\* there are exactly n-1 separators when no rendering contains ";".
C13_FormattedResult ==
    Invoked("format") =>
        /\ ret.result = Joined13(values)
        /\ values = <<NullVal, StringVal(DateText), IntVal(42)>> =>
              ret.result = <<";">> \o DateText \o <<";", "4", "2">>
        /\ (\A i \in 1..Len(values) : values[i] # BytesVal(<<";">>)) =>
              Count(ret.result, Len(ret.result), ";") = Len(values) - 1

\* The row of the claim has been formatted.
C13_Witness ==
    /\ Invoked("format")
    /\ values = <<NullVal, StringVal(DateText), IntVal(42)>>
    /\ Len(ret.result) = 14

\* The pattern p (literals and "." only) occurs somewhere in the text r.
Occurs(p, r) ==
    \E i \in 1..(Len(r) - Len(p) + 1) :
        LET w == SubSeq(r, i, i + Len(p) - 1) IN
        \A j \in 1..Len(p) : p[j] = "." \/ p[j] = w[j]

\* C14: when the supervisor receives result r and a well-formed pattern is
\* configured, the verdict is CRITICAL exactly when the pattern matches
\* somewhere in the whole joined text r, separators included; otherwise the
\* output is "SQL OK: <r>|<r>" with exit code 0.
C14_PatternOverJoinedText ==
    (Took = "recv.result" /\ config.Regex # <<>> /\ ~Malformed(config.Regex)) =>
        /\ ExitCode = CRITICAL <=> Occurs(config.Regex, ret.result)
        /\ Occurs(config.Regex, ret.result) =>
              stdout = << <<"SQL CRITICAL: ">> \o ret.result \o <<"|">> \o ret.result >>
        /\ ~Occurs(config.Regex, ret.result) =>
              /\ ExitCode = OK
              /\ stdout = << <<"SQL OK: ">> \o ret.result \o <<"|">> \o ret.result >>

\* The pattern "a;" matched across the separator: no column contains it.
C14_Witness ==
    /\ Took = "recv.result" /\ config.Regex = <<"a", ";">>
    /\ values = <<BytesVal(<<"a">>), IntVal(42)>>
    /\ ExitCode = CRITICAL

\* The stages of the pipeline in order, and the stages invoked so far.
Stages == <<"open", "ping", "query", "next", "columns", "scan", "format">>
StageTrace == SelectSeq(trace, LAMBDA e : \E i \in 1..Len(Stages) : Stages[i] = e)

\* The stage whose failure runQuery reports with this message.
FailedStage(msg) ==
    CASE msg = "can't connect to server: " -> "open"
      [] msg = "can't ping server: " -> "ping"
      [] msg = "query error: " -> "query"
      [] msg = "query returned no rows" -> "next"
      [] msg = "error getting columns: " -> "columns"
      [] msg = "error scanning row: " -> "scan"

\* C15: the stages are invoked strictly in order, each only after the one
\* before it succeeded, and after the first failing stage none is invoked.
C15_ForwardOnly ==
    /\ StageTrace = SubSeq(Stages, 1, Len(StageTrace))
    /\ Invoked("ping") => conn # "none"
    /\ Invoked("next") => cursor # "none"
    /\ Invoked("columns") => current # <<>>
    /\ Invoked("format") => values = current /\ values # <<>>
    /\ ret.err # NoErr =>
          /\ wpc \in {"return", "done"}
          /\ StageTrace[Len(StageTrace)] = FailedStage(ret.err[1])

\* The query failed and nothing was invoked after it.
C15_Witness ==
    /\ wpc = "done" /\ ret.err # NoErr /\ ret.err[1] = "query error: "
    /\ StageTrace = <<"open", "ping", "query">>

\* How often an operation was invoked.
Times(op) == Cardinality({i \in 1..Len(trace) : trace[i] = op})

\* C16: nothing is retried and only the first row is read: the one worker
\* invokes open, ping, query, the cursor advance, columns and scan at most
\* once each and signals at most once, so at most one row is fetched even
\* when the result set holds more.
C16_NoRetryFirstRowOnly ==
    /\ \A i \in 1..Len(Stages) : Times(Stages[i]) <= 1
    /\ Times("ctx") <= 1
    /\ Times("send.err") + Times("send.result") <= 1
    /\ rows # <<>> /\ Invoked("next") /\ current # <<>> => rows = <<current>>
    /\ Invoked("format") => values = current

\* An OK verdict with the second row of the result set never fetched.
C16_Witness == Exited /\ ExitCode = OK /\ Len(rows) = 1 /\ Times("next") = 1

\* The worker has signalled the supervisor.
Signalled == Invoked("send.err") \/ Invoked("send.result")
Signal == IF Invoked("send.err") THEN "send.err" ELSE "send.result"

\* C17: after a successful query the cursor is closed on every return of
\* runQuery, before the connection is closed and both before the worker
\* signals; on returns before a successful query there is no cursor and none
\* is closed.
C17_CursorReleasedWithConnection ==
    /\ conn = "closed" /\ cursor # "none" => cursor = "closed"
    /\ Signalled =>
          IF cursor # "none"
          THEN /\ cursor = "closed" /\ conn = "closed"
               /\ Before("rows.Close", "db.Close")
               /\ Before("db.Close", Signal)
               /\ Times("rows.Close") = 1
          ELSE /\ ~Invoked("rows.Close")
               /\ ~Invoked("next")

\* The scan failed: the cursor and then the connection were closed before the
\* failure was sent.
C17_Witness ==
    /\ Signalled /\ ret.err # NoErr /\ ret.err[1] = "error scanning row: "
    /\ cursor = "closed"

\* The ping failed: no cursor was opened and none was closed.
C17_WitnessNoCursor == Signalled /\ Invoked("ping") /\ cursor = "none"

\* C18: a server that never answers cannot keep the worker inside runQuery for
\* ever: unless the process exits first, the worker returns from runQuery with
\* a result or a failure (checked under WorkerFairSpec).
C18_WorkerReturns == (dbMode = "hung") ~> (Exited \/ wpc \in {"return", "done"})

\* The server never answered, the process is still running, and the worker
\* has returned with the context's deadline error and signalled.
C18_Witness ==
    /\ Running /\ dbMode = "hung" /\ wpc = "done"
    /\ ret.err = <<"can't ping server: ", "context deadline exceeded">>

\* C19: the worker sends at most one message, on exactly one of resultChan
\* and errChan, and the send never blocks (each channel has room for it, also
\* when the timer's value is already pending); the supervisor consumes at most
\* one signal and prints exactly one verdict line.
C19_SingleShotSignals ==
    /\ Times("send.err") + Times("send.result") <= 1
    /\ Len(errChan) + Len(resultChan) <= 1
    /\ (Running /\ wpc = "return" /\ defers = <<>>) =>
          /\ errChan = <<>> /\ resultChan = <<>>
          /\ ENABLED Send
    /\ wpc = "done" => Times("send.err") + Times("send.result") = 1
    /\ Times("recv.result") + Times("recv.err") + Times("recv.timeout")
          = (IF Exited THEN 1 ELSE 0)
    /\ Len(stdout) = (IF Exited THEN 1 ELSE 0)
    /\ Took \in {"recv.result", "recv.err"} => errChan = <<>> /\ resultChan = <<>>

\* The worker's send completed although the timer's value was already pending
\* and the supervisor had not received anything.
C19_Witness == Running /\ wpc = "done" /\ timerFirst /\ errChan # <<>>

\* C20: exit code 0 is emitted only if every stage succeeded in this execution
\* (open, ping, query, a first row, columns, scan), the supervisor received
\* the worker's result and not the timer's value, and either no pattern is
\* configured or the pattern is well-formed and does not match the joined
\* text; no failure, timeout, malformed or matching pattern leads to exit 0.
C20_OkOnlyOnFullSuccess ==
    (Exited /\ ExitCode = OK) =>
        /\ StageTrace = Stages
        /\ ret.err = NoErr /\ Invoked("send.result") /\ ~Invoked("send.err")
        /\ current # <<>> /\ values = current
        /\ ret.result = FormatRow(values)
        /\ Took = "recv.result"
        /\ \/ config.Regex = <<>>
           \/ /\ ~Malformed(config.Regex)
              /\ ~Matches(Atoms(config.Regex), ret.result)
        /\ Line = OkLine(ret.result)

\* An OK verdict with a well-formed pattern that does not match the row.
C20_Witness ==
    /\ Exited /\ ExitCode = OK
    /\ config.Regex = <<"a">>
    /\ current = <<IntVal(42)>>

====
